---- MODULE Spec2Model ----
(***************************************************************************)
(* Model of shell/common/platform_view_service_protocol.cc: the five       *)
(* service-protocol handlers of PlatformViewServiceProtocol (RunInView,    *)
(* ListViews, Screenshot, ScreenshotSkp, FlushUIThreadTasks), the hook     *)
(* that registers them, and the threads they hand work to.                 *)
(*                                                                         *)
(* C strings that the code inspects character by character (the viewId     *)
(* parameter, the view-id prefix, hexadecimal numerals) are tuples of      *)
(* one-character strings.  Text that is only written into a response is a  *)
(* TLA+ string, built by concatenation as the std::stringstream builds it. *)
(* A const char* is <<>> (NULL) or <<s>> (a pointer to the string s).      *)
(***************************************************************************)
EXTENDS Integers, Sequences, FiniteSets, TLC

\* ------------------------------------------------------------------ bounds
MaxViews == 2
MaxTasks == 2

\* --------------------------------------------------------------- constants
kViewIdPrefx == <<"_", "f", "l", "u", "t", "t", "e", "r", "V", "i", "e", "w", "/">>
kViewIdPrefxLength == Len(kViewIdPrefx)
kInvalidParams == -32602
kServerError == -32000
ILLEGAL_PORT == 0

kRunInViewExtensionName == "_flutter.runInView"
kListViewsExtensionName == "_flutter.listViews"
kScreenshotExtensionName == "_flutter.screenshot"
kScreenshotSkpExtensionName == "_flutter.screenshotSkp"
kFlushUIThreadTasksExtensionName == "_flutter.flushUIThreadTasks"

NULL == <<>>
Ptr(s) == <<s>>
Deref(p) == p[1]

\* ------------------------------------------------------------ C strings
NUL == "\\0"
CharAt(s, i) == IF i <= Len(s) THEN s[i] ELSE NUL

\* The text of a character tuple, as operator<< writes a const char*.
RECURSIVE Str(_)
Str(cs) == IF cs = <<>> THEN "" ELSE Head(cs) \o Str(Tail(cs))

\* strncmp(a, b, n) == 0: the first n characters agree, comparison stopping
\* at the terminating NUL.
RECURSIVE StrncmpFrom(_, _, _, _)
StrncmpFrom(a, b, n, i) ==
  IF i > n THEN 0
  ELSE IF CharAt(a, i) # CharAt(b, i) THEN 1
  ELSE IF CharAt(a, i) = NUL THEN 0
  ELSE StrncmpFrom(a, b, n, i + 1)

Strncmp(a, b, n) == StrncmpFrom(a, b, n, 1)

\* ------------------------------------------------------ hexadecimal text
HexDigits == <<"0", "1", "2", "3", "4", "5", "6", "7",
               "8", "9", "a", "b", "c", "d", "e", "f">>
UpperHexDigits == <<"0", "1", "2", "3", "4", "5", "6", "7",
                    "8", "9", "A", "B", "C", "D", "E", "F">>
DecDigits == <<"0", "1", "2", "3", "4", "5", "6", "7", "8", "9">>

\* operator<< of an unsigned integer in the given base: no leading zeros,
\* lowercase letters, "0" for zero.
RECURSIVE Digits(_, _, _)
Digits(n, base, table) ==
  IF n < base THEN <<table[n + 1]>>
  ELSE Digits(n \div base, base, table) \o <<table[(n % base) + 1]>>

HexAsDecimal(n) == Digits(n, 10, DecDigits)
\* stream << std::hex << view_id
Hex(n) == Digits(n, 16, HexDigits)

IsSpace(c) == c \in {" ", "\t", "\n"}
IsHexDigit(c) ==
  \E d \in 1..16 : c = HexDigits[d] \/ c = UpperHexDigits[d]
HexDigitValue(c) ==
  (CHOOSE d \in 1..16 : c = HexDigits[d] \/ c = UpperHexDigits[d]) - 1

RECURSIVE SkipSpace(_, _)
SkipSpace(s, i) ==
  IF i <= Len(s) /\ IsSpace(s[i]) THEN SkipSpace(s, i + 1) ELSE i

RECURSIVE Accumulate(_, _, _)
Accumulate(s, i, acc) ==
  IF i <= Len(s) /\ IsHexDigit(s[i])
  THEN Accumulate(s, i + 1, acc * 16 + HexDigitValue(s[i]))
  ELSE acc

\* std::stoull(str, nullptr, 16): leading white space is skipped, an optional
\* '+' and an optional "0x"/"0X" (when a hexadecimal digit follows it) are
\* consumed, then the longest run of hexadecimal digits is converted; what
\* follows the digits is ignored.  With no digit to convert the call throws
\* std::invalid_argument.  (A '-' sign and numerals of more than 16 digits,
\* which wrap or throw std::out_of_range in 64 bits, are outside the alphabet
\* and the lengths of the modelled inputs.)
Stoull(s) ==
  LET i0 == SkipSpace(s, 1)
      i1 == IF CharAt(s, i0) = "+" THEN i0 + 1 ELSE i0
      i2 == IF /\ CharAt(s, i1) = "0"
               /\ CharAt(s, i1 + 1) \in {"x", "X"}
               /\ IsHexDigit(CharAt(s, i1 + 2))
            THEN i1 + 2 ELSE i1
  IN  IF IsHexDigit(CharAt(s, i2))
      THEN [thrown |-> "none", value |-> Accumulate(s, i2, 0)]
      ELSE [thrown |-> "invalid_argument", value |-> 0]

\* --------------------------------------------------- parameter lookup
\* KeyIndex: the index (from 0) of the first key equal to `key`, or -1.
RECURSIVE KeyIndexFrom(_, _, _, _)
KeyIndexFrom(param_keys, num_params, key, i) ==
  IF i < num_params
  THEN IF param_keys[i + 1] = key THEN i
       ELSE KeyIndexFrom(param_keys, num_params, key, i + 1)
  ELSE -1

KeyIndexSkipsFirst(param_keys, num_params, key) ==
  IF param_keys = NULL THEN -1
  ELSE KeyIndexFrom(param_keys, num_params, key, 1)

KeyIndex(param_keys, num_params, key) ==
  IF param_keys = NULL THEN -1
  ELSE KeyIndexFrom(param_keys, num_params, key, 0)

ValueForKey(param_keys, param_values, num_params, key) ==
  LET index == KeyIndex(param_keys, num_params, key)
  IN  IF index < 0 THEN NULL ELSE Ptr(param_values[index + 1])

\* ------------------------------------------------------- error responses
\* Each returns the text stored in *json_object; the C function returns false.
ErrorMissingParameter(name) ==
  "{\"code\":" \o ToString(kInvalidParams) \o ","
    \o "\"message\":\"Invalid params\","
    \o "\"data\": {\"details\": \"" \o name \o "\"}}"

ErrorBadParameterSwapped(name, value) ==
  "{\"code\":" \o ToString(kInvalidParams) \o ","
    \o "\"message\":\"Invalid params\","
    \o "\"data\": {\"details\": \"parameter: " \o value \o " has a bad "
    \o "value: " \o name \o "\"}}"

ErrorBadParameter(name, value) ==
  "{\"code\":" \o ToString(kInvalidParams) \o ","
    \o "\"message\":\"Invalid params\","
    \o "\"data\": {\"details\": \"parameter: " \o name \o " has a bad "
    \o "value: " \o value \o "\"}}"

ErrorUnknownView(view_id) ==
  "{\"code\":" \o ToString(kInvalidParams) \o ","
    \o "\"message\":\"Invalid params\","
    \o "\"data\": {\"details\": \"view not found: " \o view_id \o "\"}}"

ErrorServer(message) ==
  "{\"code\":" \o ToString(kServerError) \o ","
    \o "\"message\":\"" \o message \o "\"}"

\* ------------------------------------------------------ view descriptors
AppendIsolateRef(stream, main_port, name) ==
  stream \o "{\"type\":\"@Isolate\",\"fixedId\":true,\"id\":\"isolates/"
         \o ToString(main_port) \o "\",\"name\":\"" \o name \o "\","
         \o "\"number\":\"" \o ToString(main_port) \o "\"}"

AppendFlutterView(stream, view_id, isolate_id, isolate_name) ==
  LET head == stream \o "{\"type\":\"FlutterView\", \"id\": \""
                     \o Str(kViewIdPrefx) \o "0x" \o Str(Hex(view_id)) \o "\""
      body == IF isolate_id # ILLEGAL_PORT
              THEN AppendIsolateRef(head \o "," \o "\"isolate\":",
                                    isolate_id, isolate_name)
              ELSE head
  IN  body \o "}"

\* ------------------------------------------------------- the view registry
\* Shell::Shared() keeps the live PlatformViews.  A view is its address
\* (`handle`), the main port and name of its UI isolate (ILLEGAL_PORT while it
\* has none) and whether its rasterizer holds a last layer tree.
Handles == {10, 26, 171}
Ports == {ILLEGAL_PORT, 7}
kIsolateName == "main.dart$main"

View(h) == [handle |-> h, port |-> ILLEGAL_PORT, name |-> "", tree |-> FALSE]

HandlesOf(vs) == {vs[i].handle : i \in 1..Len(vs)}

\* Shell::RunInPlatformView: looks the view up by its address and, when it
\* exists, launches the script in it; main_port is the port of the isolate
\* the engine then reports.
RunInPlatformView(vs, view_id, main_port) ==
  LET hit == {i \in 1..Len(vs) : vs[i].handle = view_id}
  IN  IF hit = {}
      THEN [view_existed |-> FALSE, main_port |-> ILLEGAL_PORT,
            isolate_name |-> "", views |-> vs]
      ELSE [view_existed |-> TRUE, main_port |-> main_port,
            isolate_name |-> kIsolateName,
            views |-> [i \in 1..Len(vs) |->
                         IF i \in hit
                         THEN [vs[i] EXCEPT !.port = main_port,
                                            !.name = kIsolateName]
                         ELSE vs[i]]]

\* ------------------------------------------------------------ RunInView
\* The value of the call: what it throws, what it returns, the text left in
\* *json_object, view_id_as_num, and the registry after it.
Returned(r, json, num, vs) ==
  [thrown |-> "none", ret |-> r, json |-> json, view_id_as_num |-> num,
   views |-> vs]

RunInView(param_keys, param_values, num_params, vs, launched_port) ==
  LET view_id == ValueForKey(param_keys, param_values, num_params, "viewId")
      asset_directory ==
        ValueForKey(param_keys, param_values, num_params, "assetDirectory")
      main_script ==
        ValueForKey(param_keys, param_values, num_params, "mainScript")
      packages_file ==
        ValueForKey(param_keys, param_values, num_params, "packagesFile")
  IN  IF view_id = NULL
      THEN Returned(FALSE, ErrorMissingParameter("viewId"), 0, vs)
      ELSE IF Strncmp(Deref(view_id), kViewIdPrefx, kViewIdPrefxLength) # 0
      THEN Returned(FALSE, ErrorBadParameter("viewId", Str(Deref(view_id))),
                    0, vs)
      ELSE IF asset_directory = NULL
      THEN Returned(FALSE, ErrorMissingParameter("assetDirectory"), 0, vs)
      ELSE IF main_script = NULL
      THEN Returned(FALSE, ErrorMissingParameter("mainScript"), 0, vs)
      ELSE IF packages_file = NULL
      THEN Returned(FALSE, ErrorMissingParameter("packagesFile"), 0, vs)
      ELSE
        LET parsed == Stoull(SubSeq(Deref(view_id), kViewIdPrefxLength + 1,
                                    Len(Deref(view_id))))
            view_id_as_num == parsed.value
            run == RunInPlatformView(vs, view_id_as_num, launched_port)
        IN  IF parsed.thrown # "none"
            THEN [thrown |-> parsed.thrown, ret |-> FALSE, json |-> "",
                  view_id_as_num |-> 0, views |-> vs]
            ELSE IF ~run.view_existed
            THEN Returned(FALSE, ErrorUnknownView(Str(Deref(view_id))),
                          view_id_as_num, run.views)
            ELSE Returned(TRUE,
                          AppendFlutterView("{\"type\":\"Success\"," \o "\"view\":",
                                            view_id_as_num, run.main_port,
                                            run.isolate_name) \o "}",
                          view_id_as_num, run.views)

\* -------------------------------------------------------------- ListViews
\* One call of the lambda handed to IteratePlatformViews.
ListViewsVisitAlwaysComma(acc, view) ==
  [response |-> AppendFlutterView(acc.response \o ",", view.handle,
                                  view.port, view.name),
   prefix_comma |-> TRUE]

ListViewsVisit(acc, view) ==
  [response |-> AppendFlutterView(IF acc.prefix_comma
                                  THEN acc.response \o ","
                                  ELSE acc.response,
                                  view.handle, view.port, view.name),
   prefix_comma |-> TRUE]

\* Shell::IteratePlatformViews with a callback that always returns true.
RECURSIVE IterateListViews(_, _)
IterateListViews(vs, acc) ==
  IF vs = <<>> THEN acc
  ELSE IterateListViews(Tail(vs), ListViewsVisit(acc, Head(vs)))

ListViews(vs) ==
  LET start == [response |-> "{\"type\":\"FlutterViewList\",\"views\":[",
                prefix_comma |-> FALSE]
  IN  IterateListViews(vs, start).response \o "]}"

\* ------------------------------------------------------------ screenshots
\* GetRandomRasterizer: the rasterizer of the first view, a null weak pointer
\* when there is none.
GetRandomRasterizer(vs) == IF vs = <<>> THEN NULL ELSE Ptr(Head(vs))

\* The views the iteration of GetRandomRasterizer visits.
Visited(vs) == IF vs = <<>> THEN <<>> ELSE <<Head(vs)>>

\* ScreenshotGpuTask: the states it can leave *bitmap in.
\* tryAllocN32Pixels may fail.
ScreenshotGpuTaskNoTreeCheck(vs, bitmap) ==
  LET rasterizer == GetRandomRasterizer(vs)
  IN  IF rasterizer = NULL THEN {bitmap} ELSE {bitmap, "pixels"}

ScreenshotGpuTask(vs, bitmap) ==
  LET rasterizer == GetRandomRasterizer(vs)
  IN  IF rasterizer = NULL THEN {bitmap}
      ELSE IF ~Deref(rasterizer).tree THEN {bitmap}
      ELSE {bitmap, "pixels"}

\* ScreenshotSkpGpuTask: the picture it returns.
ScreenshotSkpGpuTask(vs) ==
  LET rasterizer == GetRandomRasterizer(vs)
  IN  IF rasterizer = NULL THEN "nullptr"
      ELSE IF ~Deref(rasterizer).tree THEN "nullptr"
      ELSE "picture"

\* EncodeBitmapAsPNG: SkEncodeBitmap yields no data for a bitmap without
\* pixels, and may fail on one with pixels.
EncodeBitmapAsPNG(bitmap) ==
  IF bitmap = "pixels" THEN {"png", "nullptr"} ELSE {"nullptr"}

\* The base64 text of an encoded frame (its content is Skia's).
kBase64Png == "iVBORw0KGgo="
kBase64Skp == "c2tpYXBpY3Q="

ScreenshotResponse(png) ==
  IF png = "nullptr"
  THEN [ret |-> FALSE, json |-> ErrorServer("can not encode screenshot")]
  ELSE [ret |-> TRUE,
        json |-> "{\"type\":\"Screenshot\"," \o "\"screenshot\":\""
                   \o kBase64Png \o "\"}"]

ScreenshotSkpResponse ==
  "{\"type\":\"ScreenshotSkp\"," \o "\"skp\":\"" \o kBase64Skp \o "\"}"

\* ---------------------------------------------------------------- inputs
\* The view id listViews prints for a view, as a C string.
ViewIdOf(h) == kViewIdPrefx \o <<"0", "x">> \o Hex(h)

ViewIdInputs ==
  {ViewIdOf(h) : h \in Handles}
    \cup {<<>>,
          <<"b", "a", "d">>,
          kViewIdPrefx,
          kViewIdPrefx \o <<"z", "z">>}

ParamPairs ==
  {<<"viewId", v>> : v \in ViewIdInputs}
    \cup {<<"assetDirectory", <<"a">> >>,
          <<"mainScript", <<"m">> >>,
          <<"packagesFile", <<"p">> >>}

KeyOrder == <<"viewId", "assetDirectory", "mainScript", "packagesFile">>
Rank(key) == CHOOSE r \in 1..Len(KeyOrder) : KeyOrder[r] = key

\* The params of a request are the members of a JSON object: every key at
\* most once.  KeyIndex compares keys only, so with distinct keys the order
\* of the members cannot matter; they are listed in KeyOrder or in its
\* reverse, which puts every key at either end of the array.
ParamLists ==
  UNION {{ps \in [1..n -> ParamPairs] :
            \/ \A i, j \in 1..n : i < j => Rank(ps[i][1]) < Rank(ps[j][1])
            \/ \A i, j \in 1..n : i < j => Rank(ps[i][1]) > Rank(ps[j][1])}
         : n \in 0..Len(KeyOrder)}

KeysOf(ps) == [i \in 1..Len(ps) |-> ps[i][1]]
ValuesOf(ps) == [i \in 1..Len(ps) |-> ps[i][2]]

\* ------------------------------------------------------------------ state
VARIABLES
  hooked,          \* RegisterHook has run
  precompiled,     \* its running_precompiled_code argument
  registered,      \* names registered with Dart_RegisterRootServiceRequestCallback
  views,           \* the registry of the Shell, in iteration order
  pc,              \* the service thread: "ready", "wait", "done", "crashed"
  method,          \* the extension name of the request in hand
  param_keys,
  param_values,
  view_id_as_num,  \* RunInView's local
  ret,             \* the handler's return value
  json_object,     \* the text it left in *json_object
  latch,           \* fxl::AutoResetWaitableEvent: signaled or not
  bitmap,          \* Screenshot's SkBitmap: "empty" or "pixels"
  picture,         \* ScreenshotSkp's sk_sp<SkPicture>: "nullptr" or "picture"
  gpuQueue,        \* closures posted to blink::Threads::Gpu()
  gpu,             \* the GPU thread: "idle", or "signal" inside a closure
  uiQueue,         \* tasks posted to blink::Threads::UI()
  nextTask,        \* number of other UI tasks posted so far
  snap,            \* history: the views the request's registry lookup visited
  signals,         \* history: latch.Signal() calls of the request in hand
  pendingAtPost    \* history: UI tasks queued when the flush task was posted

vars == <<hooked, precompiled, registered, views, pc, method, param_keys,
          param_values, view_id_as_num, ret, json_object, latch, bitmap,
          picture, gpuQueue, gpu, uiQueue, nextTask, snap, signals,
          pendingAtPost>>

hookVars == <<hooked, precompiled, registered>>
callVars == <<pc, method, param_keys, param_values, view_id_as_num, ret,
              json_object>>
localVars == <<latch, bitmap, picture, signals>>
uiVars == <<uiQueue, nextTask, pendingAtPost>>

Init ==
  /\ hooked = FALSE
  /\ precompiled = FALSE
  /\ registered = {}
  /\ views = <<>>
  /\ pc = "ready"
  /\ method = "none"
  /\ param_keys = <<>>
  /\ param_values = <<>>
  /\ view_id_as_num = 0
  /\ ret = FALSE
  /\ json_object = ""
  /\ latch = FALSE
  /\ bitmap = "empty"
  /\ picture = "nullptr"
  /\ gpuQueue = <<>>
  /\ gpu = "idle"
  /\ uiQueue = <<>>
  /\ nextTask = 0
  /\ snap = <<>>
  /\ signals = 0
  /\ pendingAtPost = {}

Alive == pc # "crashed"

\* ------------------------------------------------------------ RegisterHook
RegisterHookAll(running_precompiled_code) ==
  {kListViewsExtensionName, kScreenshotExtensionName,
   kScreenshotSkpExtensionName, kRunInViewExtensionName,
   kFlushUIThreadTasksExtensionName}

\* The names the call registers.
RegisterHookNames(running_precompiled_code) ==
  {kListViewsExtensionName, kScreenshotExtensionName,
   kScreenshotSkpExtensionName}
    \cup IF running_precompiled_code THEN {}
         ELSE {kRunInViewExtensionName, kFlushUIThreadTasksExtensionName}

RegisterHook(running_precompiled_code) ==
  /\ ~hooked
  /\ hooked' = TRUE
  /\ precompiled' = running_precompiled_code
  /\ registered' = registered \cup RegisterHookNames(running_precompiled_code)
  /\ UNCHANGED <<views, callVars, localVars, gpuQueue, gpu, uiVars, snap>>

\* ------------------------------------------------- the Shell and its threads
AddView(h) ==
  /\ Alive /\ pc # "done"
  /\ Len(views) < MaxViews
  /\ h \notin HandlesOf(views)
  /\ views' = Append(views, View(h))
  /\ UNCHANGED <<hookVars, callVars, localVars, gpuQueue, gpu, uiVars, snap>>

RemoveView(i) ==
  /\ Alive /\ pc # "done"
  /\ i \in 1..Len(views)
  /\ views' = SubSeq(views, 1, i - 1) \o SubSeq(views, i + 1, Len(views))
  /\ UNCHANGED <<hookVars, callVars, localVars, gpuQueue, gpu, uiVars, snap>>

\* The rasterizer of view i draws a frame, on the GPU thread.
Draw(i) ==
  /\ Alive /\ pc # "done"
  /\ gpu = "idle"
  /\ i \in 1..Len(views)
  /\ ~views[i].tree
  /\ views' = [views EXCEPT ![i].tree = TRUE]
  /\ UNCHANGED <<hookVars, callVars, localVars, gpuQueue, gpu, uiVars, snap>>

\* TaskRunner::PostTask: tasks run in the order they were posted.
PostTask(queue, task) == Append(queue, task)

OtherTask(id) == [kind |-> "other", id |-> id]
FlushTask == [kind |-> "flush", id |-> 0]
QueuedIds(queue) ==
  {queue[i].id : i \in {j \in 1..Len(queue) : queue[j].kind = "other"}}

\* Some other code posts a task to the UI thread.
PostOtherUITask ==
  /\ Alive /\ pc # "done"
  /\ nextTask < MaxTasks
  /\ nextTask' = nextTask + 1
  /\ uiQueue' = PostTask(uiQueue, OtherTask(nextTask + 1))
  /\ UNCHANGED <<hookVars, views, callVars, localVars, gpuQueue, gpu, snap,
                 pendingAtPost>>

\* The UI thread runs the task at the head of its queue.
RunOtherUITask ==
  /\ Alive /\ pc # "done"
  /\ uiQueue # <<>>
  /\ Head(uiQueue).kind = "other"
  /\ uiQueue' = Tail(uiQueue)
  /\ UNCHANGED <<hookVars, views, callVars, localVars, gpuQueue, gpu, snap,
                 nextTask, pendingAtPost>>

\* -------------------------------------------------------------- handlers
\* The dispatcher of the VM service calls a handler on the service thread,
\* one request at a time, and only one that RegisterHook registered.
Dispatch(name) ==
  /\ pc = "ready"
  /\ name \in registered
  /\ method' = name

RunInViewCall(ps, launched_port) ==
  /\ Dispatch(kRunInViewExtensionName)
  /\ LET r == RunInView(KeysOf(ps), ValuesOf(ps), Len(ps), views, launched_port)
     IN  /\ pc' = IF r.thrown = "none" THEN "done" ELSE "crashed"
         /\ view_id_as_num' = r.view_id_as_num
         /\ ret' = r.ret
         /\ json_object' = r.json
         /\ views' = r.views
  /\ param_keys' = KeysOf(ps)
  /\ param_values' = ValuesOf(ps)
  /\ snap' = views
  /\ UNCHANGED <<hookVars, localVars, gpuQueue, gpu, uiVars>>

ListViewsCall ==
  /\ Dispatch(kListViewsExtensionName)
  /\ json_object' = ListViews(views)
  /\ ret' = TRUE
  /\ pc' = "done"
  /\ snap' = views
  /\ UNCHANGED <<hookVars, views, param_keys, param_values, view_id_as_num,
                 localVars, gpuQueue, gpu, uiVars>>

\* Screenshot up to latch.Wait(): the locals are constructed and the closure
\* is posted to the GPU thread.
ScreenshotPost ==
  /\ Dispatch(kScreenshotExtensionName)
  /\ pc' = "wait"
  /\ latch' = FALSE
  /\ bitmap' = "empty"
  /\ gpuQueue' = PostTask(gpuQueue, kScreenshotExtensionName)
  /\ UNCHANGED <<hookVars, views, param_keys, param_values, view_id_as_num,
                 ret, json_object, picture, signals, gpu, uiVars, snap>>

\* Screenshot after latch.Wait().
ScreenshotAfterWait ==
  /\ latch' = FALSE
  /\ \E png \in EncodeBitmapAsPNG(bitmap) :
       /\ ret' = ScreenshotResponse(png).ret
       /\ json_object' = ScreenshotResponse(png).json
  /\ pc' = "done"
  /\ UNCHANGED <<hookVars, views, method, param_keys, param_values,
                 view_id_as_num, bitmap, picture, signals, gpuQueue, gpu,
                 uiVars, snap>>

ScreenshotNoWait ==
  /\ pc = "wait"
  /\ method = kScreenshotExtensionName
  /\ ScreenshotAfterWait

\* latch.Wait() returns once the event is signaled, and resets it.
ScreenshotWait ==
  /\ pc = "wait"
  /\ method = kScreenshotExtensionName
  /\ latch
  /\ ScreenshotAfterWait

ScreenshotSkpPost ==
  /\ Dispatch(kScreenshotSkpExtensionName)
  /\ pc' = "wait"
  /\ latch' = FALSE
  /\ picture' = "nullptr"
  /\ gpuQueue' = PostTask(gpuQueue, kScreenshotSkpExtensionName)
  /\ UNCHANGED <<hookVars, views, param_keys, param_values, view_id_as_num,
                 ret, json_object, bitmap, signals, gpu, uiVars, snap>>

\* ScreenshotSkp after latch.Wait().  picture->serialize() on a null picture
\* is undefined: the process dies, or the call goes on with whatever it reads.
ScreenshotSkpWait ==
  /\ pc = "wait"
  /\ method = kScreenshotSkpExtensionName
  /\ latch
  /\ latch' = FALSE
  /\ \E outcome \in IF picture = "nullptr" THEN {"crash", "garbage"}
                                            ELSE {"serialized"} :
       /\ pc' = IF outcome = "crash" THEN "crashed" ELSE "done"
       /\ ret' = (outcome # "crash")
       /\ json_object' = IF outcome = "crash" THEN "" ELSE ScreenshotSkpResponse
  /\ UNCHANGED <<hookVars, views, method, param_keys, param_values,
                 view_id_as_num, bitmap, picture, signals, gpuQueue, gpu,
                 uiVars, snap>>

\* The GPU thread takes the Screenshot closure and runs ScreenshotGpuTask.
GpuScreenshotTask ==
  /\ Alive
  /\ gpu = "idle"
  /\ gpuQueue # <<>>
  /\ Head(gpuQueue) = kScreenshotExtensionName
  /\ gpuQueue' = Tail(gpuQueue)
  /\ bitmap' \in ScreenshotGpuTask(views, bitmap)
  /\ snap' = Visited(views)
  /\ gpu' = "signal"
  /\ UNCHANGED <<hookVars, views, callVars, latch, picture, signals, uiVars>>

\* The GPU thread takes the ScreenshotSkp closure and runs ScreenshotSkpGpuTask.
GpuScreenshotSkpTask ==
  /\ Alive
  /\ gpu = "idle"
  /\ gpuQueue # <<>>
  /\ Head(gpuQueue) = kScreenshotSkpExtensionName
  /\ gpuQueue' = Tail(gpuQueue)
  /\ picture' = ScreenshotSkpGpuTask(views)
  /\ snap' = Visited(views)
  /\ gpu' = "signal"
  /\ UNCHANGED <<hookVars, views, callVars, latch, bitmap, signals, uiVars>>

\* The last statement of either closure: latch.Signal().
GpuSignal ==
  /\ Alive
  /\ gpu = "signal"
  /\ latch' = TRUE
  /\ signals' = signals + 1
  /\ gpu' = "idle"
  /\ UNCHANGED <<hookVars, views, callVars, bitmap, picture, gpuQueue, uiVars,
                 snap>>

FlushUIThreadTasksPost ==
  /\ Dispatch(kFlushUIThreadTasksExtensionName)
  /\ pc' = "wait"
  /\ latch' = FALSE
  /\ uiQueue' = PostTask(uiQueue, FlushTask)
  /\ pendingAtPost' = QueuedIds(uiQueue)
  /\ UNCHANGED <<hookVars, views, param_keys, param_values, view_id_as_num,
                 ret, json_object, bitmap, picture, signals, gpuQueue, gpu,
                 nextTask, snap>>

FlushUIThreadTasksAfterWait ==
  /\ latch' = FALSE
  /\ ret' = TRUE
  /\ json_object' = "{\"type\":\"Success\"}"
  /\ pc' = "done"
  /\ UNCHANGED <<hookVars, views, method, param_keys, param_values,
                 view_id_as_num, bitmap, picture, signals, gpuQueue, gpu,
                 uiVars, snap>>

FlushUIThreadTasksNoWait ==
  /\ pc = "wait"
  /\ method = kFlushUIThreadTasksExtensionName
  /\ FlushUIThreadTasksAfterWait

FlushUIThreadTasksWait ==
  /\ pc = "wait"
  /\ method = kFlushUIThreadTasksExtensionName
  /\ latch
  /\ FlushUIThreadTasksAfterWait

\* The UI thread reaches the closure FlushUIThreadTasks posted: latch.Signal().
UiFlushTask ==
  /\ Alive
  /\ uiQueue # <<>>
  /\ Head(uiQueue).kind = "flush"
  /\ uiQueue' = Tail(uiQueue)
  /\ latch' = TRUE
  /\ signals' = signals + 1
  /\ UNCHANGED <<hookVars, views, callVars, bitmap, picture, gpuQueue, gpu,
                 nextTask, pendingAtPost, snap>>

\* The VM service takes the response of the handler that returned; the
\* handler's frame is gone.
Respond ==
  /\ pc = "done"
  /\ pc' = "ready"
  /\ method' = "none"
  /\ param_keys' = <<>>
  /\ param_values' = <<>>
  /\ view_id_as_num' = 0
  /\ ret' = FALSE
  /\ json_object' = ""
  /\ latch' = FALSE
  /\ bitmap' = "empty"
  /\ picture' = "nullptr"
  /\ snap' = <<>>
  /\ signals' = 0
  /\ pendingAtPost' = {}
  /\ UNCHANGED <<hookVars, views, gpuQueue, gpu, uiQueue, nextTask>>

\* Requests against a registry whose views come and go; no frame is drawn
\* and nothing else is posted to the UI thread.
NextRequests ==
  \/ \E b \in BOOLEAN : RegisterHook(b)
  \/ \E h \in Handles : AddView(h)
  \/ \E i \in 1..MaxViews : RemoveView(i)
  \/ \E ps \in ParamLists, port \in Ports : RunInViewCall(ps, port)
  \/ ListViewsCall
  \/ ScreenshotPost
  \/ GpuScreenshotTask
  \/ ScreenshotWait
  \/ ScreenshotSkpPost
  \/ GpuScreenshotSkpTask
  \/ GpuSignal
  \/ ScreenshotSkpWait
  \/ FlushUIThreadTasksPost
  \/ UiFlushTask
  \/ FlushUIThreadTasksWait
  \/ Respond

SpecRequests == Init /\ [][NextRequests]_vars

\* The handlers that hand work to another thread, with frames being drawn
\* and other tasks being posted to the UI thread.
NextThreads ==
  \/ \E b \in BOOLEAN : RegisterHook(b)
  \/ \E h \in Handles : AddView(h)
  \/ \E i \in 1..MaxViews : RemoveView(i)
  \/ \E i \in 1..MaxViews : Draw(i)
  \/ PostOtherUITask
  \/ RunOtherUITask
  \/ ScreenshotPost
  \/ GpuScreenshotTask
  \/ ScreenshotWait
  \/ ScreenshotSkpPost
  \/ GpuScreenshotSkpTask
  \/ GpuSignal
  \/ ScreenshotSkpWait
  \/ FlushUIThreadTasksPost
  \/ UiFlushTask
  \/ FlushUIThreadTasksWait
  \/ Respond

SpecThreads == Init /\ [][NextThreads]_vars

\* ================================================================ properties
Done(name) == pc = "done" /\ method = name
Ended(name) == pc \in {"done", "crashed"} /\ method = name

Present(key) == \E i \in 1..Len(param_keys) : param_keys[i] = key
ValueOf(key) ==
  param_values[CHOOSE i \in 1..Len(param_keys) : param_keys[i] = key]
Absent == {key \in {"viewId", "assetDirectory", "mainScript", "packagesFile"} :
             ~Present(key)}
StartsWith(s, prefix) ==
  Len(s) >= Len(prefix) /\ SubSeq(s, 1, Len(prefix)) = prefix
HasViewIdPrefix(s) == StartsWith(s, kViewIdPrefx)

MissingParameterText(name) ==
  "{\"code\":-32602,\"message\":\"Invalid params\",\"data\": {\"details\": \""
    \o name \o "\"}}"
BadParameterText(name, value) ==
  "{\"code\":-32602,\"message\":\"Invalid params\",\"data\": {\"details\": \"parameter: "
    \o name \o " has a bad value: " \o value \o "\"}}"
UnknownViewText(view_id) ==
  "{\"code\":-32602,\"message\":\"Invalid params\",\"data\": {\"details\": \"view not found: "
    \o view_id \o "\"}}"

\* C1, as claimed: a runInView call with a required parameter absent ends
\* with a MissingParameter error naming an absent parameter, whatever the
\* values of the parameters that are present.
C1_MissingAsClaimed ==
  (Ended(kRunInViewExtensionName) /\ Absent # {})
    => /\ pc = "done"
       /\ ret = FALSE
       /\ \E key \in Absent : json_object = MissingParameterText(key)

\* C1, amended: a runInView call with a required parameter absent, whose
\* viewId is absent or starts with "_flutterView/", returns false with a
\* MissingParameter error (-32602, "Invalid params") naming an absent
\* parameter.
C1_Missing ==
  (/\ Ended(kRunInViewExtensionName)
   /\ Absent # {}
   /\ (Present("viewId") => HasViewIdPrefix(ValueOf("viewId"))))
    => /\ pc = "done"
       /\ ret = FALSE
       /\ \E key \in Absent : json_object = MissingParameterText(key)

C1_Witness ==
  /\ Done(kRunInViewExtensionName)
  /\ Present("viewId")
  /\ HasViewIdPrefix(ValueOf("viewId"))
  /\ Absent = {"mainScript"}
  /\ ret = FALSE
  /\ json_object = MissingParameterText("mainScript")

\* C2: a runInView call whose viewId is present without the prefix
\* "_flutterView/" returns false with a BadParameter error (-32602) naming
\* viewId and echoing the value, whichever other parameters are present.
C2_BadViewId ==
  (/\ Ended(kRunInViewExtensionName)
   /\ Present("viewId")
   /\ ~HasViewIdPrefix(ValueOf("viewId")))
    => /\ pc = "done"
       /\ ret = FALSE
       /\ json_object = BadParameterText("viewId", Str(ValueOf("viewId")))

C2_Witness ==
  /\ Done(kRunInViewExtensionName)
  /\ Present("viewId")
  /\ ValueOf("viewId") = <<"b", "a", "d">>
  /\ Absent = {"assetDirectory", "packagesFile"}
  /\ ret = FALSE
  /\ json_object =
       "{\"code\":-32602,\"message\":\"Invalid params\",\"data\": {\"details\": \"parameter: viewId has a bad value: bad\"}}"

\* A view id designates a view when it is the id listViews prints for it.
Designates(view_id, vs) ==
  \E i \in 1..Len(vs) : view_id = ViewIdOf(vs[i].handle)

\* C3, as claimed: a runInView call with all four parameters present and a
\* prefixed viewId that designates no view of the registry (an empty or
\* non-hexadecimal remainder included) returns false with an UnknownView
\* error, and never ends abnormally.
C3_UnknownViewAsClaimed ==
  (/\ Ended(kRunInViewExtensionName)
   /\ Absent = {}
   /\ HasViewIdPrefix(ValueOf("viewId"))
   /\ ~Designates(ValueOf("viewId"), snap))
    => /\ pc = "done"
       /\ ret = FALSE
       /\ json_object = UnknownViewText(Str(ValueOf("viewId")))

\* The descriptor of one view, and descriptors joined by single commas.
Descriptor(view) == AppendFlutterView("", view.handle, view.port, view.name)

RECURSIVE CommaSeparated(_)
CommaSeparated(vs) ==
  IF vs = <<>> THEN ""
  ELSE IF Len(vs) = 1 THEN Descriptor(vs[1])
  ELSE CommaSeparated(SubSeq(vs, 1, Len(vs) - 1)) \o "," \o Descriptor(vs[Len(vs)])

\* C4: with N >= 0 views registered, listViews returns true and its response
\* is {"type":"FlutterViewList","views":[ ... ]} holding the N descriptors of
\* the views in iteration order, separated by max(N-1, 0) commas, with no
\* leading or trailing comma; the list is empty for N = 0.
C4_ListViews ==
  Ended(kListViewsExtensionName)
    => /\ pc = "done"
       /\ ret = TRUE
       /\ json_object =
            "{\"type\":\"FlutterViewList\",\"views\":[" \o CommaSeparated(snap) \o "]}"
       /\ (snap = <<>> =>
             json_object = "{\"type\":\"FlutterViewList\",\"views\":[]}")

C4_Witness ==
  /\ Done(kListViewsExtensionName)
  /\ Len(snap) = 2
  /\ snap[1].handle = 10 /\ snap[1].port = ILLEGAL_PORT
  /\ snap[2].handle = 26 /\ snap[2].port = ILLEGAL_PORT
  /\ json_object =
       "{\"type\":\"FlutterViewList\",\"views\":[{\"type\":\"FlutterView\", \"id\": \"_flutterView/0xa\"},{\"type\":\"FlutterView\", \"id\": \"_flutterView/0x1a\"}]}"

\* C8: after RegisterHook(running_precompiled_code) the registered callbacks
\* are exactly listViews, screenshot and screenshotSkp when the argument is
\* true, and those plus runInView and flushUIThreadTasks when it is false; in
\* a precompiled build the dispatcher never enters runInView or
\* flushUIThreadTasks.
C8_RegisterHook ==
  hooked
    => /\ registered =
            IF precompiled
            THEN {"_flutter.listViews", "_flutter.screenshot",
                  "_flutter.screenshotSkp"}
            ELSE {"_flutter.listViews", "_flutter.screenshot",
                  "_flutter.screenshotSkp", "_flutter.runInView",
                  "_flutter.flushUIThreadTasks"}
       /\ (precompiled =>
             method \notin {"_flutter.runInView", "_flutter.flushUIThreadTasks"})

C8_Witness ==
  /\ hooked
  /\ precompiled
  /\ Done("_flutter.screenshot")

\* C10: for a view h of the registry, the id listViews prints for it,
\* "_flutterView/0x" and h in lowercase hexadecimal, passes runInView's prefix
\* check and is parsed back to h: a runInView call with that id and the other
\* three parameters present succeeds on that view and its Success response
\* echoes the same id.
C10_RoundTrip ==
  \A i \in 1..Len(snap) :
    (/\ Ended(kRunInViewExtensionName)
     /\ Absent = {}
     /\ ValueOf("viewId") = ViewIdOf(snap[i].handle))
      => /\ pc = "done"
         /\ ret = TRUE
         /\ view_id_as_num = snap[i].handle
         /\ Descriptor(View(snap[i].handle)) =
              "{\"type\":\"FlutterView\", \"id\": \""
                \o Str(ValueOf("viewId")) \o "\"}"
         /\ json_object =
              "{\"type\":\"Success\",\"view\":{\"type\":\"FlutterView\", \"id\": \""
                \o Str(ValueOf("viewId")) \o "\""
                \o (IF views[i].port = ILLEGAL_PORT THEN ""
                    ELSE AppendIsolateRef(",\"isolate\":", views[i].port,
                                          views[i].name))
                \o "}}"

C10_Witness ==
  /\ Done(kRunInViewExtensionName)
  /\ Absent = {}
  /\ ValueOf("viewId") = kViewIdPrefx \o <<"0", "x", "a", "b">>
  /\ Len(snap) = 2
  /\ snap[2].handle = 171
  /\ ret = TRUE
  /\ view_id_as_num = 171
  /\ json_object =
       "{\"type\":\"Success\",\"view\":{\"type\":\"FlutterView\", \"id\": \"_flutterView/0xab\"}}"

\* C5: when the GPU task finds no view, or a first view whose rasterizer has
\* no last layer tree, a screenshot request still completes: the task leaves
\* the bitmap without pixels and signals the latch, and the handler returns
\* false with the ServerError response "can not encode screenshot" (-32000).
C5_ScreenshotNoFrame ==
  (/\ Ended(kScreenshotExtensionName)
   /\ (snap = <<>> \/ ~snap[1].tree))
    => /\ pc = "done"
       /\ bitmap = "empty"
       /\ signals = 1
       /\ ret = FALSE
       /\ json_object = "{\"code\":-32000,\"message\":\"can not encode screenshot\"}"

C5_Witness ==
  /\ Done(kScreenshotExtensionName)
  /\ snap # <<>>
  /\ ~snap[1].tree
  /\ ret = FALSE

\* C6, as claimed: no request ends the process; every handler, in every
\* state of the registry, writes a response and returns.
C6_NoFatalAsClaimed ==
  /\ pc # "crashed"
  /\ (pc = "done" => json_object # "")

\* The closure a handler posted has not finished: it is queued, or the
\* thread is inside it.
ClosureUnfinished ==
  \/ gpuQueue # <<>>
  \/ gpu = "signal"
  \/ \E i \in 1..Len(uiQueue) : uiQueue[i].kind = "flush"

\* C7: in Screenshot, ScreenshotSkp and FlushUIThreadTasks the calling thread
\* stays in latch.Wait(), its locals alive and unread, until the closure has
\* done its work and called latch.Signal(); the closure signals once per
\* request and does nothing after signalling.
C7_Rendezvous ==
  /\ ClosureUnfinished => (pc = "wait" /\ ~latch)
  /\ signals <= 1
  /\ (latch \/ signals = 1) => ~ClosureUnfinished
  /\ (/\ pc \in {"done", "crashed"}
      /\ method \in {kScreenshotExtensionName, kScreenshotSkpExtensionName,
                     kFlushUIThreadTasksExtensionName})
       => (signals = 1 /\ ~ClosureUnfinished)

C7_Witness ==
  /\ Done(kScreenshotExtensionName)
  /\ bitmap = "pixels"
  /\ signals = 1
  /\ ret = TRUE

====
